---- MODULE Spec2Model ----
(***************************************************************************)
(* Session lifecycle of the USSD simulator: the USSDSimulator component    *)
(* (src/src/components/USSDSimulator.tsx), its Dexie table db.sessions and *)
(* the PhoneDialer that calls handleUSSDRequest.                           *)
(*                                                                         *)
(* Every async handler is cut at its awaits: one action per stretch of     *)
(* code that runs without yielding.  A handler reads currentSession,       *)
(* isLoading and loadSessions from the render it was created in, so the    *)
(* values it captured are kept with its program counter.                   *)
(*                                                                         *)
(* Texts are sequences of pieces (<<"Error: ", "Failed to fetch">>), the   *)
(* empty string is <<>>.  An optional JSON field is <<>> when absent and   *)
(* <<v>> when present.  A null session is the record Null (id 0).          *)
(* Message.timestamp, Session.phoneNumber and Session.networkCode are left *)
(* out: no handler reads them.                                             *)
(***************************************************************************)
EXTENDS Integers, Sequences, FiniteSets, TLC

VARIABLES
    config,          \* useState<USSDConfig>: the endpoint and the session id
    isLoading,       \* useState(false)
    currentSession,  \* useState<USSDSession | null>
    sessions,        \* useState<USSDSession[]>: the history list
    showHistory,     \* useState(false)
    dbError,         \* useState<string | null>
    store,           \* db.sessions: the records, in primary-key order
    now,             \* Date.now()
    initPc,          \* initializeSessions: "toArray" | "done"
    submits,         \* the calls of handleUSSDRequest in flight
    endOp,           \* the call of handleEndSession in flight
    clearOp,         \* the call of handleClearSession in flight
    deleteOp,        \* the call of handleDeleteSession in flight
    pendingLoads,    \* calls of loadSessions awaiting toArray(), made by
                     \* toggleHistory and by the end/clear/delete handlers
    storeQueue,      \* the requests to db.sessions that have not settled,
                     \* in the order they were made
    hook             \* the useIndexedDB hook: its open request, its state
                     \* (db, isLoading, error), what the memoized
                     \* deleteSession sees, the calls of its operations,
                     \* the requests not settled and the object store

componentVars ==
    <<config, isLoading, currentSession, sessions, showHistory, dbError,
      store, now, initPc, submits, endOp,
      clearOp, deleteOp, pendingLoads, storeQueue>>

vars == <<config, isLoading, currentSession, sessions, showHistory, dbError,
          store, now, initPc, submits, endOp,
          clearOp, deleteOp, pendingLoads, storeQueue, hook>>

----------------------------------------------------------------------------
(* Bounds *)

\* Date.now() stays at or below MaxClock.  Every submit starts at a later
\* millisecond than the one before, so at most MaxClock submits start.
MaxClock == 2
\* End/clear/delete calls and loadSessions calls that may be in flight together.
MaxAux == 1

----------------------------------------------------------------------------
(* Values *)

Null == [id |-> 0, messages |-> <<>>, isActive |-> FALSE,
         startTime |-> 0, updatedAt |-> 0]

NoDbError == "null"
LoadDbError == "Failed to load session history. Please refresh the page to try again."

\* The endpoint that resetConfig and the Local Dev button set.
LocalDevEndpoint == "http://localhost:8000/ussd"

\* config.sessionId: '' (identifiers are numbers here, so 0), or the value
\* that the Generate button of the ConfigPanel puts there.
EmptySessionId == 0
GeneratedSessionId == 100

\* defaultConfig, and the configuration that resetConfig sets.
DefaultConfig == [endpoint |-> "", sessionId |-> EmptySessionId]
ResetConfig == [endpoint |-> LocalDevEndpoint, sessionId |-> EmptySessionId]

\* What the user can have typed in the dialer.
DialInputs == {<<>>, <<" ">>, <<"*123#">>}

NoBody == [response |-> <<>>, message |-> <<>>, continueSession |-> <<>>]

\* JSON bodies of a 2xx reply: response / message / continueSession present,
\* empty or absent.
GatewayBodies ==
    {[response |-> << <<"Menu">> >>, message |-> <<>>, continueSession |-> <<>>],
     [response |-> << <<"Menu">> >>, message |-> << <<"Msg">> >>,
      continueSession |-> <<TRUE>>],
     [response |-> <<>>, message |-> <<>>, continueSession |-> <<FALSE>>]}

\* Every shape of the three fields: absent, present and empty (or false),
\* present and not empty (or true).
AllGatewayBodies ==
    [response : {<<>>, << <<>> >>, << <<"Menu">> >>},
     message : {<<>>, << <<>> >>, << <<"Msg">> >>},
     continueSession : {<<>>, <<TRUE>>, <<FALSE>>}]

\* A 2xx reply with a JSON body.
OkReply(body) == [kind |-> "ok", status |-> "200", body |-> body]

\* The outcomes of fetch + response.ok + response.json().
GatewayOutcomes ==
    {[kind |-> "ok", status |-> "200", body |-> b] : b \in GatewayBodies}
    \cup {[kind |-> "network", status |-> "", body |-> NoBody],
          [kind |-> "http", status |-> "500", body |-> NoBody],
          [kind |-> "badjson", status |-> "200", body |-> NoBody]}

NoPayload == [sessionID |-> 0, newSession |-> FALSE, userData |-> <<>>]

IdleSubmit == [pc |-> "idle", base |-> Null, updatedSession |-> Null,
               final |-> Null, isNewSession |-> FALSE, payload |-> NoPayload,
               responseData |-> NoBody, replied |-> FALSE]

IdleEnd == [pc |-> "idle", updatedSession |-> Null, loading |-> FALSE]
IdleClear == [pc |-> "idle", id |-> 0, loading |-> FALSE]
IdleDelete == [pc |-> "idle", id |-> 0, isCurrent |-> FALSE, loading |-> FALSE]

\* Who awaits a request to db.sessions.  IndexedDB runs the transactions on
\* one object store in the order they were created, so the requests settle
\* first in, first out.
InitRequest == <<"initializeSessions", 0>>
SubmitRequest(s) == <<"handleUSSDRequest", s>>
EndRequest == <<"handleEndSession", 0>>
ClearRequest == <<"handleClearSession", 0>>
DeleteRequest == <<"handleDeleteSession", 0>>
LoadRequest == <<"loadSessions", 0>>

\* The request awaited by `owner` is the next one to settle.
IsNextToSettle(owner) == storeQueue # <<>> /\ Head(storeQueue) = owner

----------------------------------------------------------------------------
(* Pure helpers *)

Last(s) == s[Len(s)]

IsPrefix(s, t) == Len(s) <= Len(t) /\ SubSeq(t, 1, Len(s)) = s

\* String.prototype.trim on a text of pieces.
RECURSIVE TrimLeft(_)
TrimLeft(t) == IF t # <<>> /\ Head(t) = " " THEN TrimLeft(Tail(t)) ELSE t

RECURSIVE TrimRight(_)
TrimRight(t) ==
    IF t # <<>> /\ Last(t) = " " THEN TrimRight(SubSeq(t, 1, Len(t) - 1)) ELSE t

Trim(t) == TrimRight(TrimLeft(t))

\* JavaScript truthiness of an optional string field.
Truthy(f) == f # <<>> /\ f[1] # <<>>

\* Table.put: upsert by primary key, records kept in key order.
RECURSIVE StorePut(_, _)
StorePut(st, s) ==
    IF st = <<>> THEN <<s>>
    ELSE IF Head(st).id = s.id THEN <<s>> \o Tail(st)
    ELSE IF Head(st).id > s.id THEN <<s>> \o st
    ELSE <<Head(st)>> \o StorePut(Tail(st), s)

\* Table.delete: removing an absent key is not an error.
StoreDelete(st, id) == SelectSeq(st, LAMBDA r : r.id # id)

StoreIds(st) == {st[i].id : i \in 1..Len(st)}

StoreGet(st, id) ==
    IF id \in StoreIds(st)
    THEN st[CHOOSE i \in 1..Len(st) : st[i].id = id]
    ELSE Null

\* The helpers of src/lib/db.ts on the table st; get of an absent key is
\* undefined (Null here).
getAllSessions(st) == st

getSession(st, id) == StoreGet(st, id)

\* Mutant of saveSession: Table.add in place of Table.put, which is rejected
\* when the key is there already.
saveSessionAdd(st, session) ==
    IF session.id \in StoreIds(st) THEN st ELSE StorePut(st, session)

saveSession(st, session) == StorePut(st, session)

deleteSession(st, id) == StoreDelete(st, id)

\* The comparator of loadSessions (timeB - timeA) under the stable Array.sort:
\* x goes after every element that is at least as new.
RECURSIVE InsertByUpdatedAt(_, _)
InsertByUpdatedAt(x, sorted) ==
    IF sorted = <<>> THEN <<x>>
    ELSE IF Head(sorted).updatedAt >= x.updatedAt
         THEN <<Head(sorted)>> \o InsertByUpdatedAt(x, Tail(sorted))
         ELSE <<x>> \o sorted

RECURSIVE SortSessions(_)
SortSessions(s) ==
    IF s = <<>> THEN <<>>
    ELSE InsertByUpdatedAt(Last(s), SortSessions(SubSeq(s, 1, Len(s) - 1)))

----------------------------------------------------------------------------
(* handleUSSDRequest, lines 115-234 *)

\* Mutant of IsNewSession: "new" taken to mean that no session is active.
IsNewSessionNoneActive(cs) == cs = Null \/ ~cs.isActive

\* const isNewSession = !currentSession?.messages?.length
IsNewSession(cs) == cs = Null \/ Len(cs.messages) = 0

\* The session object of lines 126-138: the current one, or a new one.
SessionFor(cs, t) ==
    IF cs = Null
    THEN [id |-> t, messages |-> <<>>, isActive |-> TRUE,
          startTime |-> t, updatedAt |-> t]
    ELSE cs

RequestMessage(input, sessionId, t) ==
    [id |-> t, type |-> "request", text |-> input, sessionId |-> sessionId]

\* Lines 149-153.
WithRequest(session, input, t) ==
    [session EXCEPT !.messages = Append(@, RequestMessage(input, session.id, t)),
                    !.updatedAt = t]

\* Lines 159-165.
Payload(session, isNewSession, input) ==
    [sessionID |-> session.id, newSession |-> isNewSession, userData |-> input]

\* Mutant of ResponseText: the operands of || are in the other order.
ResponseTextMessageFirst(body) ==
    IF Truthy(body.message) THEN body.message[1]
    ELSE IF Truthy(body.response) THEN body.response[1]
    ELSE <<"No response message">>

\* responseData.response || responseData.message || 'No response message'
ResponseText(body) ==
    IF Truthy(body.response) THEN body.response[1]
    ELSE IF Truthy(body.message) THEN body.message[1]
    ELSE <<"No response message">>

\* isActive: responseData.continueSession !== false
ContinueSession(body) == body.continueSession # <<FALSE>>

\* Lines 183-197.
WithResponse(session, body, t) ==
    [session EXCEPT
        !.messages = Append(@, [id |-> t + 1, type |-> "response",
                                text |-> ResponseText(body),
                                sessionId |-> session.id]),
        !.isActive = ContinueSession(body),
        !.updatedAt = t]

\* error.message of what the try block threw.
ErrorDescription(outcome) ==
    CASE outcome.kind = "network" -> <<"Failed to fetch">>
      [] outcome.kind = "http" -> <<"HTTP error! status: ", outcome.status>>
      [] outcome.kind = "badjson" -> <<"Unexpected end of JSON input">>
      [] outcome.kind = "store" -> <<"QuotaExceededError">>

\* Mutant of WithError: the error session keeps the isActive it had.
WithErrorStillActive(session, description, t) ==
    [session EXCEPT
        !.messages = Append(@, [id |-> t + 1, type |-> "response",
                                text |-> <<"Error: ">> \o description,
                                sessionId |-> session.id]),
        !.updatedAt = t]

\* Lines 214-227.
WithError(session, description, t) ==
    [session EXCEPT
        !.messages = Append(@, [id |-> t + 1, type |-> "response",
                                text |-> <<"Error: ">> \o description,
                                sessionId |-> session.id]),
        !.isActive = FALSE,
        !.updatedAt = t]

\* One record per call in flight; no more than MaxClock calls ever start.
Slots == 1..MaxClock

FreeSlot(s) ==
    /\ submits[s].pc = "idle"
    /\ \A r \in Slots : r < s => submits[r].pc # "idle"

\* The dialer shows when the history does not, and its input is disabled
\* while isLoading; handleCall needs input.trim().
CanDial(input) ==
    /\ ~showHistory
    /\ ~isLoading
    /\ Trim(input) # <<>>

\* Lines 115-155, up to the await of the first put.  The user's key press is
\* at least a millisecond after whatever happened before.
SubmitStart(s, input) ==
    /\ CanDial(input)
    /\ config.endpoint # ""
    /\ FreeSlot(s)
    /\ now < MaxClock
    /\ LET t == now + 1
           session == SessionFor(currentSession, t)
           updatedSession == WithRequest(session, input, t)
       IN /\ now' = t
          /\ isLoading' = TRUE
          /\ currentSession' = updatedSession
          /\ submits' = [submits EXCEPT ![s] =
                 [IdleSubmit EXCEPT !.pc = "put1",
                                    !.base = currentSession,
                                    !.updatedSession = updatedSession,
                                    !.final = updatedSession,
                                    !.isNewSession = IsNewSession(currentSession)]]
    /\ UNCHANGED <<config, sessions, showHistory, dbError, store, initPc, endOp, clearOp, deleteOp, pendingLoads>>
    /\ storeQueue' = Append(storeQueue, SubmitRequest(s))
    /\ UNCHANGED hook

\* Mutant of SubmitNoEndpoint: the endpoint is tested after setIsLoading(true).
SubmitNoEndpointAfterLoading(input) ==
    /\ CanDial(input)
    /\ config.endpoint = ""
    /\ isLoading' = TRUE
    /\ UNCHANGED <<config, currentSession, sessions, showHistory, dbError,
                   store, now, initPc, submits, endOp, clearOp, deleteOp,
                   pendingLoads>>
    /\ UNCHANGED storeQueue
    /\ UNCHANGED hook

\* Lines 116-118: without an endpoint the handler returns at once.
SubmitNoEndpoint(input) ==
    /\ CanDial(input)
    /\ config.endpoint = ""
    /\ UNCHANGED vars

\* Mutant of DialBlank: handleCall tests input instead of input.trim(), so
\* blanks reach onDial and lines 126-154 put them in the current session.
DialBlankUntrimmed(input) ==
    /\ ~showHistory
    /\ ~isLoading
    /\ Trim(input) = <<>>
    /\ IF input = <<>>
       THEN UNCHANGED currentSession
       ELSE currentSession' = WithRequest(SessionFor(currentSession, now), input, now)
    /\ UNCHANGED <<config, isLoading, sessions, showHistory, dbError, store,
                   now, initPc, submits, endOp, clearOp, deleteOp,
                   pendingLoads>>
    /\ UNCHANGED storeQueue
    /\ UNCHANGED hook

\* PhoneDialer.handleCall: a blank input never reaches onDial.
DialBlank(input) ==
    /\ ~showHistory
    /\ ~isLoading
    /\ Trim(input) = <<>>
    /\ UNCHANGED vars

\* Mutant of SubmitPut1Done: the put of line 155 is not awaited inside the
\* handler's control flow, so the fetch is issued whether or not it is stored.
SubmitPut1DoneFetchAnyway(s, ok) ==
    /\ IsNextToSettle(SubmitRequest(s))
    /\ submits[s].pc = "put1"
    /\ store' = IF ok THEN StorePut(store, submits[s].updatedSession) ELSE store
    /\ submits' = [submits EXCEPT
           ![s].pc = "fetch",
           ![s].payload = Payload(submits[s].updatedSession,
                                  submits[s].isNewSession,
                                  Last(submits[s].updatedSession.messages).text)]
    /\ UNCHANGED <<config, isLoading, currentSession, sessions, showHistory,
                   dbError, now, initPc, endOp, clearOp, deleteOp,
                   pendingLoads>>
    /\ storeQueue' = Tail(storeQueue)
    /\ UNCHANGED hook

\* Line 155 settles.  It is outside the try: a rejected put ends the handler
\* there, before the fetch and before the finally.
SubmitPut1Done(s, ok) ==
    /\ IsNextToSettle(SubmitRequest(s))
    /\ submits[s].pc = "put1"
    /\ IF ok
       THEN /\ store' = StorePut(store, submits[s].updatedSession)
            /\ submits' = [submits EXCEPT
                   ![s].pc = "fetch",
                   ![s].payload = Payload(submits[s].updatedSession,
                                          submits[s].isNewSession,
                                          Last(submits[s].updatedSession.messages).text)]
       ELSE /\ submits' = [submits EXCEPT ![s] = IdleSubmit]
            /\ UNCHANGED store
    /\ UNCHANGED <<config, isLoading, currentSession, sessions, showHistory,
                   dbError, now, initPc, endOp, clearOp, deleteOp,
                   pendingLoads>>
    /\ storeQueue' = Tail(storeQueue)
    /\ UNCHANGED hook

\* Lines 168-201 up to the await of the second put, or lines 206-230 up to
\* the await of the put in the catch block.  The reply comes d ms later.
GatewayReply(s, outcome, d) ==
    /\ submits[s].pc = "fetch"
    /\ now + d <= MaxClock
    /\ now' = now + d
    /\ IF outcome.kind = "ok"
       THEN LET final == WithResponse(submits[s].updatedSession, outcome.body, now')
            IN /\ currentSession' = final
               /\ submits' = [submits EXCEPT ![s].pc = "put2",
                                             ![s].final = final,
                                             ![s].payload = NoPayload,
                                             ![s].responseData = outcome.body,
                                             ![s].replied = TRUE]
       ELSE LET final == WithError(submits[s].updatedSession,
                                   ErrorDescription(outcome), now')
            IN /\ currentSession' = final
               /\ submits' = [submits EXCEPT ![s].pc = "put3",
                                             ![s].final = final,
                                             ![s].payload = NoPayload]
    /\ UNCHANGED <<config, isLoading, sessions, showHistory, dbError, store,
                   initPc, endOp, clearOp, deleteOp,
                   pendingLoads>>
    /\ storeQueue' = Append(storeQueue, SubmitRequest(s))
    /\ UNCHANGED hook

\* Line 201 settles.  Fulfilled: loadSessions() of line 204 starts (the
\* handler was created in a render with isLoading false, so it does not
\* return early).  Rejected: the catch block builds the error session from
\* updatedSession.
SubmitPut2Done(s, ok) ==
    /\ IsNextToSettle(SubmitRequest(s))
    /\ submits[s].pc = "put2"
    /\ IF ok
       THEN /\ store' = StorePut(store, submits[s].final)
            /\ isLoading' = TRUE
            /\ submits' = [submits EXCEPT ![s].pc = "reload"]
            /\ UNCHANGED currentSession
       ELSE LET final == WithError(submits[s].updatedSession,
                                   ErrorDescription([kind |-> "store"]), now)
            IN /\ currentSession' = final
               /\ submits' = [submits EXCEPT ![s].pc = "put3", ![s].final = final]
               /\ UNCHANGED <<store, isLoading>>
    /\ UNCHANGED <<config, sessions, showHistory, dbError, now,
                   initPc, endOp, clearOp, deleteOp, pendingLoads>>
    /\ storeQueue' = Append(Tail(storeQueue), SubmitRequest(s))
    /\ UNCHANGED hook

\* toArray() of the loadSessions call of line 204 settles; lines 98-112,
\* then the finally of line 232.
SubmitReloadDone(s, ok) ==
    /\ IsNextToSettle(SubmitRequest(s))
    /\ submits[s].pc = "reload"
    /\ IF ok
       THEN /\ sessions' = SortSessions(store)
            /\ UNCHANGED dbError
       ELSE /\ dbError' = LoadDbError
            /\ UNCHANGED sessions
    /\ isLoading' = FALSE
    /\ submits' = [submits EXCEPT ![s] = IdleSubmit]
    /\ UNCHANGED <<config, currentSession, showHistory, store, now,
                   initPc, endOp, clearOp, deleteOp, pendingLoads>>
    /\ storeQueue' = Tail(storeQueue)
    /\ UNCHANGED hook

\* Line 230 settles, then the finally of line 232 (a rejection leaves the
\* handler through the finally as well).
SubmitPut3Done(s, ok) ==
    /\ IsNextToSettle(SubmitRequest(s))
    /\ submits[s].pc = "put3"
    /\ IF ok
       THEN /\ store' = StorePut(store, submits[s].final)
       ELSE /\ UNCHANGED store
    /\ isLoading' = FALSE
    /\ submits' = [submits EXCEPT ![s] = IdleSubmit]
    /\ UNCHANGED <<config, currentSession, sessions, showHistory, dbError,
                   now, initPc, endOp, clearOp, deleteOp,
                   pendingLoads>>
    /\ storeQueue' = Tail(storeQueue)
    /\ UNCHANGED hook

----------------------------------------------------------------------------
(* loadSessions as called by the other handlers, lines 90-113 *)

AuxInFlight ==
    pendingLoads
    + (IF endOp.pc = "idle" THEN 0 ELSE 1)
    + (IF clearOp.pc = "idle" THEN 0 ELSE 1)
    + (IF deleteOp.pc = "idle" THEN 0 ELSE 1)

\* Lines 91-95 for a caller created in a render where isLoading was
\* `loading`: return [] at once, or set isLoading and await toArray().
\* `queue` is the caller's view of the requests still to settle.
LoadSessionsStart(loading, queue) ==
    IF loading
    THEN /\ UNCHANGED <<isLoading, pendingLoads>>
         /\ storeQueue' = queue
    ELSE /\ isLoading' = TRUE
         /\ pendingLoads' = pendingLoads + 1
         /\ storeQueue' = Append(queue, LoadRequest)

\* toArray() settles: lines 95-112.
LoadSessionsDone(ok) ==
    /\ IsNextToSettle(LoadRequest)
    /\ pendingLoads > 0
    /\ pendingLoads' = pendingLoads - 1
    /\ IF ok
       THEN /\ sessions' = SortSessions(store)
            /\ UNCHANGED dbError
       ELSE /\ dbError' = LoadDbError
            /\ UNCHANGED sessions
    /\ isLoading' = FALSE
    /\ UNCHANGED <<config, currentSession, showHistory, store, now,
                   initPc, submits, endOp, clearOp, deleteOp>>
    /\ storeQueue' = Tail(storeQueue)
    /\ UNCHANGED hook

\* Mutant of InitLoaded: a rejected toArray() is only logged, as the catch
\* blocks of the end/clear/delete handlers do.
InitLoadedOnlyLogs(ok) ==
    /\ IsNextToSettle(InitRequest)
    /\ initPc = "toArray"
    /\ initPc' = "done"
    /\ sessions' = IF ok THEN SortSessions(store) ELSE sessions
    /\ isLoading' = FALSE
    /\ currentSession' = Null
    /\ UNCHANGED <<config, showHistory, dbError, store, now, submits, endOp,
                   clearOp, deleteOp, pendingLoads>>
    /\ storeQueue' = Tail(storeQueue)
    /\ UNCHANGED hook

\* Lines 74-88: toArray() of the mount effect's loadSessions settles, then
\* setCurrentSession(null).  loadSessions catches its own failure, so the
\* catch of line 81 is never entered.
InitLoaded(ok) ==
    /\ IsNextToSettle(InitRequest)
    /\ initPc = "toArray"
    /\ initPc' = "done"
    /\ IF ok
       THEN /\ sessions' = SortSessions(store)
            /\ UNCHANGED dbError
       ELSE /\ dbError' = LoadDbError
            /\ UNCHANGED sessions
    /\ isLoading' = FALSE
    /\ currentSession' = Null
    /\ UNCHANGED <<config, showHistory, store, now, submits, endOp,
                   clearOp, deleteOp, pendingLoads>>
    /\ storeQueue' = Tail(storeQueue)
    /\ UNCHANGED hook

----------------------------------------------------------------------------
(* The other handlers, lines 237-298 *)

\* Lines 237-240: a click on an entry of the history list.
LoadSession(i) ==
    /\ showHistory
    /\ i \in 1..Len(sessions)
    /\ currentSession' = sessions[i]
    /\ showHistory' = FALSE
    /\ UNCHANGED <<config, isLoading, sessions, dbError, store, now, initPc, submits, endOp, clearOp, deleteOp,
                   pendingLoads>>
    /\ UNCHANGED storeQueue
    /\ UNCHANGED hook

\* Lines 242-250.
ToggleHistory ==
    /\ showHistory' = ~showHistory
    /\ IF ~showHistory
       THEN /\ isLoading \/ AuxInFlight < MaxAux
            /\ LoadSessionsStart(isLoading, storeQueue)
       ELSE UNCHANGED <<isLoading, pendingLoads, storeQueue>>
    /\ UNCHANGED <<config, currentSession, sessions, dbError, store, now, initPc, submits, endOp, clearOp, deleteOp>>
    /\ UNCHANGED hook

\* Lines 252-263 up to the await of the put.  The End button shows for a
\* session and is disabled once it is not active.
EndSession ==
    /\ currentSession # Null
    /\ currentSession.isActive
    /\ endOp.pc = "idle"
    /\ AuxInFlight < MaxAux
    /\ LET updatedSession == [currentSession EXCEPT !.isActive = FALSE,
                                                    !.updatedAt = now]
       IN /\ currentSession' = updatedSession
          /\ endOp' = [pc |-> "put", updatedSession |-> updatedSession,
                       loading |-> isLoading]
    /\ UNCHANGED <<config, isLoading, sessions, showHistory, dbError, store,
                   now, initPc, submits, clearOp,
                   deleteOp, pendingLoads>>
    /\ storeQueue' = Append(storeQueue, EndRequest)
    /\ UNCHANGED hook

\* Mutant of EndSessionPutDone: the ended session is not written.
EndSessionPutDoneNotStored(ok) ==
    /\ IsNextToSettle(EndRequest)
    /\ endOp.pc = "put"
    /\ endOp' = IdleEnd
    /\ IF ok
       THEN /\ UNCHANGED store
            /\ LoadSessionsStart(endOp.loading, Tail(storeQueue))
       ELSE /\ UNCHANGED <<store, isLoading, pendingLoads>>
            /\ storeQueue' = Tail(storeQueue)
    /\ UNCHANGED <<config, currentSession, sessions, showHistory, dbError,
                   now, initPc, submits, clearOp, deleteOp>>
    /\ UNCHANGED hook

\* Line 263 settles: loadSessions() of line 264, or the catch of line 265.
EndSessionPutDone(ok) ==
    /\ IsNextToSettle(EndRequest)
    /\ endOp.pc = "put"
    /\ endOp' = IdleEnd
    /\ IF ok
       THEN /\ store' = StorePut(store, endOp.updatedSession)
            /\ LoadSessionsStart(endOp.loading, Tail(storeQueue))
       ELSE /\ UNCHANGED <<store, isLoading, pendingLoads>>
            /\ storeQueue' = Tail(storeQueue)
    /\ UNCHANGED <<config, currentSession, sessions, showHistory, dbError,
                   now, initPc, submits, clearOp, deleteOp>>
    /\ UNCHANGED hook

\* Lines 275-279 up to the await of the delete.
ClearSession ==
    /\ currentSession # Null
    /\ clearOp.pc = "idle"
    /\ AuxInFlight < MaxAux
    /\ clearOp' = [pc |-> "delete", id |-> currentSession.id, loading |-> isLoading]
    /\ UNCHANGED <<config, isLoading, currentSession, sessions, showHistory,
                   dbError, store, now, initPc, submits,
                   endOp, deleteOp, pendingLoads>>
    /\ storeQueue' = Append(storeQueue, ClearRequest)
    /\ UNCHANGED hook

\* Line 279 settles: lines 280-281, or the catch of line 282.
ClearSessionDeleteDone(ok) ==
    /\ IsNextToSettle(ClearRequest)
    /\ clearOp.pc = "delete"
    /\ clearOp' = IdleClear
    /\ IF ok
       THEN /\ store' = StoreDelete(store, clearOp.id)
            /\ currentSession' = Null
            /\ LoadSessionsStart(clearOp.loading, Tail(storeQueue))
       ELSE /\ UNCHANGED <<store, currentSession, isLoading, pendingLoads>>
            /\ storeQueue' = Tail(storeQueue)
    /\ UNCHANGED <<config, sessions, showHistory, dbError, now,
                   initPc, submits, endOp, deleteOp>>
    /\ UNCHANGED hook

\* Lines 287-290 up to the await of the delete: the bin of a history entry.
DeleteSession(i) ==
    /\ showHistory
    /\ i \in 1..Len(sessions)
    /\ deleteOp.pc = "idle"
    /\ AuxInFlight < MaxAux
    /\ deleteOp' = [pc |-> "delete", id |-> sessions[i].id,
                    isCurrent |-> currentSession.id = sessions[i].id,
                    loading |-> isLoading]
    /\ UNCHANGED <<config, isLoading, currentSession, sessions, showHistory,
                   dbError, store, now, initPc, submits,
                   endOp, clearOp, pendingLoads>>
    /\ storeQueue' = Append(storeQueue, DeleteRequest)
    /\ UNCHANGED hook

\* Line 290 settles: lines 291-294, or the catch of line 295.
DeleteSessionDeleteDone(ok) ==
    /\ IsNextToSettle(DeleteRequest)
    /\ deleteOp.pc = "delete"
    /\ deleteOp' = IdleDelete
    /\ IF ok
       THEN /\ store' = StoreDelete(store, deleteOp.id)
            /\ currentSession' = IF deleteOp.isCurrent THEN Null ELSE currentSession
            /\ LoadSessionsStart(deleteOp.loading, Tail(storeQueue))
       ELSE /\ UNCHANGED <<store, currentSession, isLoading, pendingLoads>>
            /\ storeQueue' = Tail(storeQueue)
    /\ UNCHANGED <<config, sessions, showHistory, dbError, now,
                   initPc, submits, endOp, clearOp>>
    /\ UNCHANGED hook

\* ConfigPanel: the Local Dev button (or Reset) sets the endpoint.
SetEndpoint ==
    /\ config # ResetConfig
    /\ config' = ResetConfig
    /\ UNCHANGED <<isLoading, currentSession, sessions, showHistory, dbError,
                   store, now, initPc, submits, endOp, clearOp,
                   deleteOp, pendingLoads>>
    /\ UNCHANGED storeQueue
    /\ UNCHANGED hook

\* ConfigPanel.generateSessionId: the Generate button fills in a session id.
GenerateSessionId ==
    /\ config.sessionId = EmptySessionId
    /\ config' = [config EXCEPT !.sessionId = GeneratedSessionId]
    /\ UNCHANGED <<isLoading, currentSession, sessions, showHistory, dbError,
                   store, now, initPc, submits, endOp, clearOp,
                   deleteOp, pendingLoads, storeQueue>>
    /\ UNCHANGED hook

\* Mutant of NewSession: it deletes the record as handleClearSession does.
NewSessionDeletesRecord ==
    /\ currentSession' = Null
    /\ store' = StoreDelete(store, currentSession.id)
    /\ UNCHANGED <<config, isLoading, sessions, showHistory, dbError,
                   now, initPc, submits, endOp, clearOp,
                   deleteOp, pendingLoads, storeQueue>>
    /\ UNCHANGED hook

\* Lines 270-273: handleNewSession.  USSDDisplay receives it as onNewSession
\* and never calls it, so it is no step of Next.
NewSession ==
    /\ currentSession' = Null
    /\ UNCHANGED <<config, isLoading, sessions, showHistory, dbError,
                   store, now, initPc, submits, endOp, clearOp,
                   deleteOp, pendingLoads, storeQueue>>
    /\ UNCHANGED hook

----------------------------------------------------------------------------
(* Mounting *)

(* The useIndexedDB hook *)

\* How many calls of the hook's operations are followed.
MaxHookCalls == 2

HookCalls == 1..MaxHookCalls

HookOperations == {"saveSession", "getAllSessions", "getSession", "deleteSession"}

\* The sessions a caller passes: new sessions as handleUSSDRequest makes them.
HookSessions == {SessionFor(Null, t) : t \in 1..2}

IdleCall ==
    [kind |-> "none", pc |-> "idle", sees |-> [db |-> FALSE, isLoading |-> FALSE],
     session |-> Null, invokedWhen |-> "none", error |-> "", result |-> <<>>]

\* useState(null), useState(true), useState(null); indexedDB.open is pending;
\* the callbacks of the first render see db null and isLoading true.
HookInit ==
    [open |-> "pending", db |-> FALSE, isLoading |-> TRUE, error |-> FALSE,
     deleteSessionSees |-> [db |-> FALSE, isLoading |-> TRUE],
     calls |-> [c \in HookCalls |-> IdleCall],
     queue |-> <<>>,
     records |-> <<>>]

\* The executor of the promise of waitForDB, on the db and isLoading of the
\* render its callback was made in.
waitForDB(sees) ==
    IF sees.db THEN [pc |-> "request", error |-> ""]
    ELSE IF sees.isLoading THEN [pc |-> "timer", error |-> ""]
    ELSE [pc |-> "rejected", error |-> "Database not initialized"]

\* checkDB reads the same db and isLoading as the executor that defined it.
checkDB(sees) ==
    IF sees.db THEN [pc |-> "request", error |-> ""]
    ELSE IF ~sees.isLoading
    THEN [pc |-> "rejected", error |-> "Failed to initialize database"]
    ELSE [pc |-> "timer", error |-> ""]

\* request.onsuccess: setDb(request.result); setIsLoading(false), one render
\* (React 18).  db has changed, so all four callbacks are made again.
HookOpenSucceeds ==
    /\ hook.open = "pending"
    /\ hook' = [hook EXCEPT !.open = "success", !.db = TRUE,
                            !.isLoading = FALSE,
                            !.deleteSessionSees = [db |-> TRUE, isLoading |-> FALSE]]
    /\ UNCHANGED componentVars

\* request.onerror: setError(request.error); setIsLoading(false).  db has not
\* changed: deleteSession, memoized on [db], stays the one of the first
\* render; the other three, memoized on [db, isLoading], are made again.
HookOpenFails ==
    /\ hook.open = "pending"
    /\ hook' = [hook EXCEPT !.open = "error", !.error = TRUE,
                            !.isLoading = FALSE]
    /\ UNCHANGED componentVars

\* A caller invokes an operation of the latest render: await waitForDB(),
\* then, with a database, the transaction and its request.
HookInvoke(c, kind, session) ==
    /\ hook.calls[c].pc = "idle"
    /\ LET sees == IF kind = "deleteSession"
                   THEN hook.deleteSessionSees
                   ELSE [db |-> hook.db, isLoading |-> hook.isLoading]
           w == waitForDB(sees)
       IN hook' = [hook EXCEPT
              !.calls[c] = [kind |-> kind, pc |-> w.pc, sees |-> sees,
                            session |-> session, invokedWhen |-> hook.open,
                            error |-> w.error, result |-> <<>>],
              !.queue = IF w.pc = "request" THEN Append(@, c) ELSE @]
    /\ UNCHANGED componentVars

\* The 100 ms of setTimeout(checkDB, 100) have passed.
HookTimerFires(c) ==
    /\ hook.calls[c].pc = "timer"
    /\ hook' = [hook EXCEPT !.calls[c].pc = "checkDB"]
    /\ UNCHANGED componentVars

\* checkDB runs.
HookCheckDB(c) ==
    /\ hook.calls[c].pc = "checkDB"
    /\ LET w == checkDB(hook.calls[c].sees)
       IN hook' = [hook EXCEPT
              !.calls[c].pc = w.pc,
              !.calls[c].error = w.error,
              !.queue = IF w.pc = "request" THEN Append(@, c) ELSE @]
    /\ UNCHANGED componentVars

\* The request of a call settles: store.put, store.getAll, store.get or
\* store.delete on the object store keyed by id.
HookRequestDone(c, ok) ==
    /\ hook.calls[c].pc = "request"
    /\ hook.queue # <<>>
    /\ Head(hook.queue) = c
    /\ LET call == hook.calls[c]
       IN IF ok
          THEN hook' = [hook EXCEPT
                   !.calls[c].pc = "resolved",
                   !.calls[c].result =
                       CASE call.kind = "getAllSessions" -> hook.records
                         [] call.kind = "getSession" ->
                                IF call.session.id \in StoreIds(hook.records)
                                THEN <<StoreGet(hook.records, call.session.id)>>
                                ELSE <<>>
                         [] OTHER -> <<>>,
                   !.records =
                       CASE call.kind = "saveSession" -> StorePut(@, call.session)
                         [] call.kind = "deleteSession" ->
                                StoreDelete(@, call.session.id)
                         [] OTHER -> @,
                   !.queue = Tail(@)]
          ELSE hook' = [hook EXCEPT
                   !.calls[c].pc = "rejected",
                   !.calls[c].error = "request.error",
                   !.queue = Tail(@)]
    /\ UNCHANGED componentVars

HookNext ==
    \/ HookOpenSucceeds
    \/ HookOpenFails
    \/ \E c \in HookCalls, kind \in HookOperations, session \in HookSessions :
           HookInvoke(c, kind, IF kind = "getAllSessions" THEN Null ELSE session)
    \/ \E c \in HookCalls : HookTimerFires(c)
    \/ \E c \in HookCalls : HookCheckDB(c)
    \/ \E c \in HookCalls, ok \in BOOLEAN : HookRequestDone(c, ok)

\* What the browser guarantees: the open request settles, a timer fires and
\* its callback runs, a request to the object store settles.  Nothing makes a
\* caller invoke an operation.
HookFairness ==
    /\ WF_vars(HookOpenSucceeds \/ HookOpenFails)
    /\ \A c \in HookCalls :
           /\ WF_vars(HookTimerFires(c))
           /\ WF_vars(HookCheckDB(c))
           /\ WF_vars(\E ok \in BOOLEAN : HookRequestDone(c, ok))

----------------------------------------------------------------------------

\* The state of lines 66-71 once the mount effect has called loadSessions
\* (isLoading is set, toArray() is awaited); nothing is on the disk yet.
Init ==
    /\ config = DefaultConfig
    /\ isLoading = TRUE
    /\ currentSession = Null
    /\ sessions = <<>>
    /\ showHistory = FALSE
    /\ dbError = NoDbError
    /\ initPc = "toArray"
    /\ submits = [s \in Slots |-> IdleSubmit]
    /\ endOp = IdleEnd
    /\ clearOp = IdleClear
    /\ deleteOp = IdleDelete
    /\ pendingLoads = 0
    /\ storeQueue = <<InitRequest>>
    /\ store = <<>>
    /\ now = 0
    /\ hook = HookInit

\* The page is loaded again: the component state is new (the handlers in
\* flight are gone with the old page, their requests are dropped), the Store
\* is kept.
ReloadPage ==
    /\ config' = DefaultConfig
    /\ isLoading' = TRUE
    /\ currentSession' = Null
    /\ sessions' = <<>>
    /\ showHistory' = FALSE
    /\ dbError' = NoDbError
    /\ initPc' = "toArray"
    /\ submits' = [s \in Slots |-> IdleSubmit]
    /\ endOp' = IdleEnd
    /\ clearOp' = IdleClear
    /\ deleteOp' = IdleDelete
    /\ pendingLoads' = 0
    /\ storeQueue' = <<InitRequest>>
    /\ UNCHANGED <<store, now>>
    /\ UNCHANGED hook

Next ==
    \/ \E ok \in BOOLEAN : InitLoaded(ok)
    \/ \E s \in Slots, input \in DialInputs : SubmitStart(s, input)
    \/ \E input \in DialInputs : SubmitNoEndpoint(input)
    \/ \E input \in DialInputs : DialBlank(input)
    \/ \E s \in Slots, ok \in BOOLEAN : SubmitPut1Done(s, ok)
    \/ \E s \in Slots, outcome \in GatewayOutcomes, d \in 0..1 :
           GatewayReply(s, outcome, d)
    \/ \E s \in Slots, ok \in BOOLEAN : SubmitPut2Done(s, ok)
    \/ \E s \in Slots, ok \in BOOLEAN : SubmitReloadDone(s, ok)
    \/ \E s \in Slots, ok \in BOOLEAN : SubmitPut3Done(s, ok)
    \/ \E ok \in BOOLEAN : LoadSessionsDone(ok)
    \/ \E i \in 1..Len(sessions) : LoadSession(i)
    \/ ToggleHistory
    \/ EndSession
    \/ \E ok \in BOOLEAN : EndSessionPutDone(ok)
    \/ ClearSession
    \/ \E ok \in BOOLEAN : ClearSessionDeleteDone(ok)
    \/ \E i \in 1..Len(sessions) : DeleteSession(i)
    \/ \E ok \in BOOLEAN : DeleteSessionDeleteDone(ok)
    \/ SetEndpoint
    \/ ReloadPage

Spec == Init /\ [][Next]_vars

\* What the event loop guarantees: a request to IndexedDB settles (fulfilled
\* or rejected) and the handler awaiting it is resumed.  Nothing makes the
\* gateway answer a fetch, and nothing makes the user act.
Fairness ==
    /\ WF_vars(\E ok \in BOOLEAN : InitLoaded(ok))
    /\ WF_vars(\E ok \in BOOLEAN : LoadSessionsDone(ok))
    /\ WF_vars(\E ok \in BOOLEAN : EndSessionPutDone(ok))
    /\ WF_vars(\E ok \in BOOLEAN : ClearSessionDeleteDone(ok))
    /\ WF_vars(\E ok \in BOOLEAN : DeleteSessionDeleteDone(ok))
    /\ \A s \in Slots :
           /\ WF_vars(\E ok \in BOOLEAN : SubmitPut1Done(s, ok))
           /\ WF_vars(\E ok \in BOOLEAN : SubmitPut2Done(s, ok))
           /\ WF_vars(\E ok \in BOOLEAN : SubmitReloadDone(s, ok))
           /\ WF_vars(\E ok \in BOOLEAN : SubmitPut3Done(s, ok))

FairSpec == Spec /\ Fairness

\* The hook alone: the component does nothing.
HookSpec == Init /\ [][HookNext]_vars

HookFairSpec == HookSpec /\ HookFairness

\* One exchange after the other with a working Store and a gateway that
\* answers 2xx at once, with every shape of body.
ReplyNext ==
    \/ InitLoaded(TRUE)
    \/ SetEndpoint
    \/ \E s \in Slots, input \in DialInputs : SubmitStart(s, input)
    \/ \E s \in Slots : SubmitPut1Done(s, TRUE)
    \/ \E s \in Slots, body \in AllGatewayBodies :
           GatewayReply(s, OkReply(body), 0)
    \/ \E s \in Slots : SubmitPut2Done(s, TRUE)
    \/ \E s \in Slots : SubmitReloadDone(s, TRUE)

ReplySpec == Init /\ [][ReplyNext]_vars

\* The component with a session id typed or generated in the ConfigPanel.
SessionIdNext == Next \/ GenerateSessionId

SessionIdSpec == Init /\ [][SessionIdNext]_vars

\* The component with handleNewSession wired to a control.
NewSessionNext == Next \/ NewSession

NewSessionSpec == Init /\ [][NewSessionNext]_vars

\* The component with a Store that rejects no request: every toArray, put
\* and delete is fulfilled.  The gateway may still fail.
NoFailureNext ==
    \/ InitLoaded(TRUE)
    \/ \E s \in Slots, input \in DialInputs : SubmitStart(s, input)
    \/ \E input \in DialInputs : SubmitNoEndpoint(input)
    \/ \E input \in DialInputs : DialBlank(input)
    \/ \E s \in Slots : SubmitPut1Done(s, TRUE)
    \/ \E s \in Slots, outcome \in GatewayOutcomes, d \in 0..1 :
           GatewayReply(s, outcome, d)
    \/ \E s \in Slots : SubmitPut2Done(s, TRUE)
    \/ \E s \in Slots : SubmitReloadDone(s, TRUE)
    \/ \E s \in Slots : SubmitPut3Done(s, TRUE)
    \/ LoadSessionsDone(TRUE)
    \/ \E i \in 1..Len(sessions) : LoadSession(i)
    \/ ToggleHistory
    \/ EndSession
    \/ EndSessionPutDone(TRUE)
    \/ ClearSession
    \/ ClearSessionDeleteDone(TRUE)
    \/ \E i \in 1..Len(sessions) : DeleteSession(i)
    \/ DeleteSessionDeleteDone(TRUE)
    \/ SetEndpoint
    \/ ReloadPage

NoFailureSpec == Init /\ [][NoFailureNext]_vars

----------------------------------------------------------------------------
(* Steps the claims speak about *)

\* The call of handleUSSDRequest in slot s returns (or rejects).
SubmitReturns(s) ==
    \/ SubmitPut1Done(s, FALSE)
    \/ \E ok \in BOOLEAN : SubmitReloadDone(s, ok) \/ SubmitPut3Done(s, ok)

\* The gateway exchange of the call in slot s fails.
ExchangeFails(s) ==
    \E outcome \in GatewayOutcomes, d \in 0..1 :
        outcome.kind # "ok" /\ GatewayReply(s, outcome, d)

\* A Store request made by handleUSSDRequest is rejected.
SubmitStoreFailure ==
    \E s \in Slots :
        \/ SubmitPut1Done(s, FALSE)
        \/ SubmitPut2Done(s, FALSE)
        \/ SubmitReloadDone(s, FALSE)
        \/ SubmitPut3Done(s, FALSE)

----------------------------------------------------------------------------
(* Claims *)

\* C1: a call of submit with a non-empty input and endpoint leaves, when it
\* returns, a session whose messages are those it started with, then one
\* request, then one response or error message.
C1_RequestThenReply ==
    [][\A s \in Slots :
          SubmitReturns(s) =>
              LET before == submits[s].base.messages
                  after == submits[s].final.messages
              IN /\ Len(after) = Len(before) + 2
                 /\ IsPrefix(before, after)
                 /\ after[Len(before) + 1].type = "request"
                 /\ after[Len(before) + 2].type = "response"]_vars

\* C2: once a session is not active, in memory or in the Store, no step
\* makes the session with that identifier active again there.
C2_IsActiveOneWay ==
    [][/\ (currentSession # Null /\ ~currentSession.isActive
             /\ currentSession'.id = currentSession.id)
              => ~currentSession'.isActive
       /\ \A i \in 1..Len(store) :
              ~store[i].isActive => ~StoreGet(store', store[i].id).isActive]_vars

\* C3: a submit that starts with no current session, or with one that is
\* not active, makes a new session (fresh identifier, active) and the
\* request is its only message.
C3_NewSessionWhenNoneActive ==
    [][\A s \in Slots, input \in DialInputs :
          (SubmitStart(s, input)
             /\ (currentSession = Null \/ ~currentSession.isActive))
              => /\ currentSession'.id # currentSession.id
                 /\ currentSession'.id \notin StoreIds(store)
                 /\ currentSession'.isActive
                 /\ Len(currentSession'.messages) = 1
                 /\ currentSession'.messages[1].type = "request"]_vars

\* C4: the messages of a session only grow: in memory and in the Store the
\* next version of a session has the present messages as a prefix.
C4_MessagesAppendOnly ==
    [][/\ (currentSession # Null /\ currentSession'.id = currentSession.id)
              => IsPrefix(currentSession.messages, currentSession'.messages)
       /\ \A i \in 1..Len(store) :
              store[i].id \in StoreIds(store')
                  => IsPrefix(store[i].messages,
                              StoreGet(store', store[i].id).messages)]_vars

\* C5: when the gateway exchange fails, the current session becomes the
\* session of the submit plus one response message whose text starts with
\* "Error: ", and it is not active.
C5_FailedExchangeEndsSession ==
    [][\A s \in Slots :
          ExchangeFails(s) =>
              LET sent == submits[s].updatedSession
                  reply == Last(currentSession'.messages)
              IN /\ currentSession'.id = sent.id
                 /\ Len(currentSession'.messages) = Len(sent.messages) + 1
                 /\ IsPrefix(sent.messages, currentSession'.messages)
                 /\ reply.type = "response"
                 /\ Head(reply.text) = "Error: "
                 /\ ~currentSession'.isActive]_vars

\* C5 witness: an exchange has failed on a session that was active.
C5_Witness ==
    \E s \in Slots :
        /\ submits[s].pc = "put3"
        /\ ~submits[s].replied
        /\ submits[s].updatedSession.isActive
        /\ currentSession = submits[s].final
        /\ Head(Last(currentSession.messages).text) = "Error: "
        /\ ~currentSession.isActive

\* C6: a submit that got a 2xx reply returns with a session that is active
\* if the reply omits continueSession or has it true, and not active if the
\* reply has continueSession false.
C6_IsActiveFollowsReply ==
    [][\A s \in Slots :
          (SubmitReturns(s) /\ submits[s].replied) =>
              (submits[s].final.isActive
                   <=> submits[s].responseData.continueSession # <<FALSE>>)]_vars

\* C7: the payload of a request in flight has newSession true exactly when
\* the request is the first message of its session.
C7_NewSessionIffNoMessages ==
    \A s \in Slots :
        submits[s].pc = "fetch" =>
            /\ submits[s].payload.sessionID = submits[s].updatedSession.id
            /\ submits[s].payload.newSession
                   <=> Len(submits[s].updatedSession.messages) = 1

\* C7 witness: a request in flight on a session that had messages.
C7_Witness ==
    \E s \in Slots :
        /\ submits[s].pc = "fetch"
        /\ Len(submits[s].updatedSession.messages) = 3
        /\ ~submits[s].payload.newSession

\* C8: a rejected Store write in submit only loses persistence: after the
\* first put the gateway is still called, and after the put of the reply
\* the current session keeps the gateway's response and its isActive.
C8_StoreFailureKeepsExchange ==
    [][\A s \in Slots :
          /\ SubmitPut1Done(s, FALSE) => submits'[s].pc = "fetch"
          /\ SubmitPut2Done(s, FALSE) => currentSession' = currentSession]_vars

\* C9: when toArray() of the mount effect is rejected, initialization still
\* completes: dbError is set, the history list is empty, the current
\* session is null and the dialer is enabled.
C9_InitFailureDegrades ==
    [][InitLoaded(FALSE) =>
          /\ initPc' = "done"
          /\ dbError' # NoDbError
          /\ sessions' = <<>>
          /\ currentSession' = Null
          /\ ~isLoading']_vars

\* C9 witness: a page load whose Store held records and whose history could
\* not be read (no session can have been saved since: there is no endpoint).
C9_Witness ==
    /\ initPc = "done"
    /\ config.endpoint = ""
    /\ store # <<>>
    /\ sessions = <<>>
    /\ dbError # NoDbError
    /\ currentSession = Null

\* C10: whenever a Store request is rejected, in initialization, submit,
\* endSession, clearSession or deleteSession, dbError is set afterwards.
C10_StoreFailureSetsDbError ==
    [][(\/ InitLoaded(FALSE)
        \/ SubmitStoreFailure
        \/ EndSessionPutDone(FALSE)
        \/ ClearSessionDeleteDone(FALSE)
        \/ DeleteSessionDeleteDone(FALSE)
        \/ LoadSessionsDone(FALSE))
           => dbError' # NoDbError]_vars

\* C11: at the step that issues the gateway request, the Store holds the
\* record of the session of that request, and the last message of the
\* record is the request message that is being sent.
C11_PersistedBeforeRequest ==
    [][\A s \in Slots :
          (submits[s].pc # "fetch" /\ submits'[s].pc = "fetch") =>
              LET sent == submits'[s].updatedSession
              IN /\ submits'[s].payload.sessionID = sent.id
                 /\ StoreGet(store', sent.id) = sent
                 /\ Last(sent.messages).type = "request"
                 /\ Last(sent.messages).text = submits'[s].payload.userData]_vars

\* C11 witness: a request is in flight for a session that already had an
\* exchange, and the Store holds that session up to the request.
C11_Witness ==
    \E s \in Slots :
        /\ submits[s].pc = "fetch"
        /\ Len(submits[s].updatedSession.messages) = 3
        /\ StoreGet(store, submits[s].updatedSession.id) = submits[s].updatedSession

\* C12: a submit that waits for the gateway does not wait forever: it goes
\* on to the error path (or to the reply) even if the gateway never answers.
C12_SubmitEndsByTimeout ==
    \A s \in Slots : (submits[s].pc = "fetch") ~> (submits[s].pc # "fetch")

\* C13: while a call of handleUSSDRequest is in flight, isLoading is true
\* (the dial input is disabled) and no other call is in flight, whatever the
\* other handlers and the reloads of the history list do.
C13_OneSubmitInFlight ==
    (\E s \in Slots : submits[s].pc # "idle") =>
        /\ isLoading
        /\ Cardinality({s \in Slots : submits[s].pc # "idle"}) <= 1

\* C14: a dial that reaches handleUSSDRequest while the endpoint is empty
\* changes no session in memory, no record of the Store, starts no call to
\* the gateway and leaves isLoading as it was.
C14_NoEndpointInert ==
    [][\A input \in DialInputs :
          SubmitNoEndpoint(input) =>
              UNCHANGED <<currentSession, sessions, store, submits, isLoading>>]_vars

\* C14 witness: the dialer is usable with an empty endpoint while a session
\* with messages is on screen and the Store holds records.
C14_Witness ==
    /\ config.endpoint = ""
    /\ CanDial(<<"*123#">>)
    /\ currentSession # Null
    /\ currentSession.messages # <<>>
    /\ store # <<>>

\* C15: dialling an input that is empty after trimming changes no session
\* in memory, no record of the Store and starts no call to the gateway.
C15_BlankDialInert ==
    [][\A input \in DialInputs :
          DialBlank(input) =>
              UNCHANGED <<currentSession, sessions, store, submits>>]_vars

\* C15 witness: a blank input can be dialled (dialer enabled, endpoint set)
\* while an active session is on screen.
C15_Witness ==
    /\ \E input \in DialInputs : input # <<>> /\ Trim(input) = <<>>
    /\ ~showHistory
    /\ ~isLoading
    /\ config.endpoint # ""
    /\ currentSession # Null
    /\ currentSession.isActive

\* C16: when the delete of clearSession is fulfilled the current session is
\* null and the Store has no record of the cleared identifier; and the
\* completion of a submit never brings back a record that has been removed
\* from the Store since the submit stored its request.
C16_ClearIsIrreversible ==
    [][/\ ClearSessionDeleteDone(TRUE) =>
              /\ currentSession' = Null
              /\ clearOp.id \notin StoreIds(store')
       /\ \A s \in Slots :
              (SubmitPut2Done(s, TRUE) \/ SubmitPut3Done(s, TRUE)) =>
                  submits[s].final.id \in StoreIds(store)]_vars

\* C17: when the delete of deleteSession(id) is fulfilled, the Store has no
\* record of id; if id is the current session the current session becomes
\* null, otherwise it stays as it is; and id leaves the history list (it is
\* not listed any more, or the reload that drops it has started).
C17_DeleteClearsCurrent ==
    [][DeleteSessionDeleteDone(TRUE) =>
          /\ deleteOp.id \notin StoreIds(store')
          /\ currentSession' = IF currentSession.id = deleteOp.id
                                THEN Null ELSE currentSession
          /\ (\E i \in 1..Len(sessions') : sessions'[i].id = deleteOp.id)
                 => pendingLoads' > 0]_vars

\* C18: a click on an entry of the history list makes the current session
\* equal to the record the Store holds for that identifier at that moment
\* (same messages, same isActive) and changes no record of the Store.
C18_LoadSessionReadsStore ==
    [][\A i \in 1..Len(sessions) :
          LoadSession(i) =>
              LET record == StoreGet(store, sessions[i].id)
              IN /\ currentSession'.id = record.id
                 /\ currentSession'.messages = record.messages
                 /\ currentSession'.isActive = record.isActive
                 /\ store' = store]_vars

\* C19: loading or deleting an identifier that has no record in the Store
\* changes neither the current session nor the Store nor dbError.
C19_NotFoundIsNoOp ==
    [][/\ \A i \in 1..Len(sessions) :
              (LoadSession(i) /\ sessions[i].id \notin StoreIds(store))
                  => UNCHANGED <<currentSession, store, dbError>>
       /\ (DeleteSessionDeleteDone(TRUE) /\ deleteOp.id \notin StoreIds(store))
              => UNCHANGED <<currentSession, store, dbError>>]_vars

\* C20: End Session makes the current session not active in memory and
\* keeps its identifier and messages; when its put is fulfilled the Store
\* record of that identifier is that session (not active, same messages) and
\* the other records are as before; without a current session no End
\* Session starts.
C20_EndSessionSetsInactive ==
    [][/\ EndSession =>
              /\ currentSession'.id = currentSession.id
              /\ currentSession'.messages = currentSession.messages
              /\ ~currentSession'.isActive
       /\ EndSessionPutDone(TRUE) =>
              LET ended == endOp.updatedSession
              IN /\ ~StoreGet(store', ended.id).isActive
                 /\ StoreGet(store', ended.id).messages = ended.messages
                 /\ \A id \in StoreIds(store) \cup StoreIds(store') :
                        id # ended.id =>
                            StoreGet(store', id) = StoreGet(store, id)
       /\ (currentSession = Null /\ endOp.pc = "idle") => endOp'.pc = "idle"]_vars

\* C20 witness: End Session on a session that the gateway left active (its
\* reply was "Menu") has been stored: the session is current, not active, and
\* its record is the same.
C20_Witness ==
    /\ currentSession # Null
    /\ ~currentSession.isActive
    /\ Len(currentSession.messages) = 2
    /\ Last(currentSession.messages).text = <<"Menu">>
    /\ endOp.pc = "idle"
    /\ StoreGet(store, currentSession.id) = currentSession

\* C21: handleNewSession makes the current session null and leaves the
\* Store as it is: every record is still there, unchanged.
C21_NewSessionKeepsStore ==
    [][NewSession => (currentSession' = Null /\ store' = store)]_vars

\* C21 witness: handleNewSession has run while a request was in flight: no
\* session is current and the record of the request's session is in the
\* Store as the submit wrote it.
C21_Witness ==
    \E s \in Slots :
        /\ submits[s].pc = "fetch"
        /\ currentSession = Null
        /\ StoreGet(store, submits[s].updatedSession.id) = submits[s].updatedSession

\* C22: when config.sessionId is not empty, a session that submit creates
\* has that value as its identifier.
C22_ConfiguredSessionId ==
    [][\A s \in Slots, input \in DialInputs :
          (SubmitStart(s, input) /\ currentSession = Null
             /\ config.sessionId # EmptySessionId)
              => currentSession'.id = config.sessionId]_vars

\* C23: on a 2xx reply the text of the appended response message is the
\* reply's response field if it is present, otherwise its message field if
\* that is present, otherwise "No response message".
C23_ResponseTextByPresence ==
    [][\A s \in Slots, body \in AllGatewayBodies :
          GatewayReply(s, OkReply(body), 0) =>
              Last(currentSession'.messages).text =
                  IF body.response # <<>> THEN body.response[1]
                  ELSE IF body.message # <<>> THEN body.message[1]
                  ELSE <<"No response message">>]_vars

\* C23 as amended: the text is the response field if it is present and not
\* empty, otherwise the message field if it is present and not empty,
\* otherwise "No response message".
C23_ResponseTextByTruthiness ==
    [][\A s \in Slots, body \in AllGatewayBodies :
          GatewayReply(s, OkReply(body), 0) =>
              /\ Last(currentSession'.messages).type = "response"
              /\ Last(currentSession'.messages).text =
                     IF body.response # <<>> /\ body.response[1] # <<>>
                     THEN body.response[1]
                     ELSE IF body.message # <<>> /\ body.message[1] # <<>>
                          THEN body.message[1]
                          ELSE <<"No response message">>]_vars

\* C23 witness: a reply with an empty response field and a message field has
\* been taken in: the text shown is the message.
C23_Witness ==
    \E s \in Slots :
        /\ submits[s].pc = "put2"
        /\ submits[s].responseData.response = << <<>> >>
        /\ submits[s].responseData.message = << <<"Msg">> >>
        /\ Last(currentSession.messages).text = <<"Msg">>

\* C24: when a message is created, a session with the message's sessionId
\* exists: a request is made for the session that is current after the
\* step, and when a response or error message is made the session of the
\* request is the current session or has a record in the Store.
C24_MessageHasSession ==
    [][\A s \in Slots :
          /\ (\E input \in DialInputs : SubmitStart(s, input)) =>
                 Last(currentSession'.messages).sessionId = currentSession'.id
          /\ ((\E outcome \in GatewayOutcomes, d \in 0..1 :
                    GatewayReply(s, outcome, d))
               \/ SubmitPut2Done(s, FALSE)) =>
                 LET id == submits[s].updatedSession.id
                 IN /\ Last(currentSession'.messages).sessionId = id
                    /\ currentSession.id = id \/ id \in StoreIds(store)]_vars

\* C25: for the table as it is and any session of the program, saveSession
\* then getSession of its id returns that session, the table then has
\* exactly one record of that id and the other records are as before;
\* deleteSession then getSession of the id returns nothing.
C25_StoreRoundTrip ==
    \A session \in ({currentSession} \cup {submits[s].final : s \in Slots}
                     \cup {sessions[i] : i \in 1..Len(sessions)}) \ {Null} :
        LET saved == saveSession(store, session)
            deleted == deleteSession(saved, session.id)
        IN /\ getSession(saved, session.id) = session
           /\ Cardinality({i \in 1..Len(getAllSessions(saved)) :
                               getAllSessions(saved)[i].id = session.id}) = 1
           /\ \A id \in StoreIds(store) \ {session.id} :
                  getSession(saved, id) = getSession(store, id)
           /\ getSession(deleted, session.id) = Null
           /\ \A id \in StoreIds(store) \ {session.id} :
                  getSession(deleted, id) = getSession(store, id)

\* C25 witness: the table holds two records and the current session is a
\* newer version of one of them, so saving it replaces a record.
C25_Witness ==
    /\ Len(store) = 2
    /\ currentSession # Null
    /\ currentSession.id \in StoreIds(store)
    /\ getSession(store, currentSession.id) # currentSession

\* C27: within the current session and within every Store record, the
\* messages have pairwise distinct identifiers.
C27_DistinctMessageIds ==
    \A session \in {currentSession} \cup {store[k] : k \in 1..Len(store)} :
        \A i, j \in 1..Len(session.messages) :
            i # j => session.messages[i].id # session.messages[j].id

\* C29: whenever a call of submit returns, whether after the reply, after a
\* failed exchange or after a rejected Store write, isLoading is false.
C29_SubmitEndsNotLoading ==
    [][\A s \in Slots : SubmitReturns(s) => ~isLoading']_vars

\* C30: when the completion of a submit (the reply, the failure of the
\* exchange, or the failure of the put of the response) finds a current
\* session that is not the one the submit started on, it leaves the current
\* session as it is; when it finds that session ended since, it leaves it
\* ended.
C30_CompletionKeepsLaterChoice ==
    [][\A s \in Slots :
          ((\E outcome \in GatewayOutcomes, d \in 0..1 :
                GatewayReply(s, outcome, d))
           \/ SubmitPut2Done(s, FALSE)) =>
              /\ currentSession.id # submits[s].updatedSession.id =>
                     currentSession' = currentSession
              /\ (/\ currentSession.id = submits[s].updatedSession.id
                  /\ submits[s].updatedSession.isActive
                  /\ ~currentSession.isActive) =>
                     ~currentSession'.isActive]_vars

\* C26: an operation of the hook invoked after the open has failed never
\* gets to the object store and never succeeds, and it is rejected in the
\* end.
C26_FailedOpenRejects ==
    \A c \in HookCalls :
        /\ [](hook.calls[c].invokedWhen = "error" =>
                 hook.calls[c].pc \notin {"request", "resolved"})
        /\ (hook.calls[c].invokedWhen = "error") ~>
               (hook.calls[c].pc = "rejected")

\* C28: an operation of the hook invoked while the open is pending goes on
\* with the database and settles once the open has succeeded, and is
\* rejected with 'Failed to initialize database' once the open has failed.
C28_CallWhileOpeningSettles ==
    \A c \in HookCalls :
        /\ (hook.calls[c].invokedWhen = "pending" /\ hook.open = "success") ~>
               \/ hook.calls[c].pc = "resolved"
               \/ hook.calls[c].pc = "rejected" /\ hook.calls[c].error = "request.error"
        /\ (hook.calls[c].invokedWhen = "pending" /\ hook.open = "error") ~>
               /\ hook.calls[c].pc = "rejected"
               /\ hook.calls[c].error = "Failed to initialize database"

\* C31: in a run where the Store rejects nothing, whenever no handler is
\* in progress and there is a current session, the Store holds a record of
\* its identifier with the same messages and the same isActive.
C31_CurrentSessionIsStored ==
    (/\ initPc = "done"
     /\ \A s \in Slots : submits[s].pc = "idle"
     /\ endOp.pc = "idle"
     /\ clearOp.pc = "idle"
     /\ deleteOp.pc = "idle"
     /\ pendingLoads = 0
     /\ storeQueue = <<>>
     /\ currentSession # Null) =>
        /\ currentSession.id \in StoreIds(store)
        /\ StoreGet(store, currentSession.id).messages = currentSession.messages
        /\ StoreGet(store, currentSession.id).isActive = currentSession.isActive

====
